---- MODULE Spec2Model ----
(***************************************************************************)
(* torch2grid: the tensor-to-grid transformation subsystem.                *)
(*                                                                         *)
(*   torch2grid/plugins/base.py      TransformerPlugin (pipeline)          *)
(*   torch2grid/plugins/builtin.py   the five built-in transformers        *)
(*   torch2grid/plugins/registry.py  PluginRegistry, get_registry          *)
(*   torch2grid/transformer.py       to_neutral_grid                       *)
(*   example_plugin.py               ReversedTransformer (a custom plugin) *)
(*                                                                         *)
(* Data representation                                                     *)
(*   scalar   a rational <<num, den>>, den > 0, in lowest terms            *)
(*   array    [present |-> TRUE, rows |-> sequence of rows of scalars];    *)
(*            the zero-length array has no rows                            *)
(*   None     [present |-> FALSE, rows |-> <<>>]  (an absent tensor)       *)
(*   tensors  the dict of layer name -> array | None, as the sequence of   *)
(*            its values in insertion order (the position is the key)      *)
(*   grid     a sequence of rows of scalars (numpy 2-D array)              *)
(*   plugin   [id, cls, name, can, hooks]; id is the object identity       *)
(*   _plugins the dict name -> plugin as the sequence of its values in     *)
(*            insertion order (the key of an element is its name)          *)
(*   file     [kind, error, candidates]: what a path leads to; candidates  *)
(*            are the TransformerPlugin subclasses of the module namespace *)
(*            in dir() order, each [outcome, obj]                          *)
(*   dir      [isdir, entries]: what a directory path leads to; entries as *)
(*            os.listdir returns them, each [underscore, ext, file]        *)
(*   private  a PluginRegistry the caller constructs for itself:           *)
(*            [constructed, plugins]                                       *)
(*   spiral   the local variables of one _generate_spiral call and the     *)
(*            position pc in its loops                                     *)
(***************************************************************************)
EXTENDS Integers, Sequences, FiniteSets, TLC

VARIABLES plugins, ops, last, tensors, calllog, custom_plugin, private, spiral

vars == <<plugins, ops, last, tensors, calllog, custom_plugin, private, spiral>>

(* ------------------------------ bounds --------------------------------- *)

\* most entries of a TensorCollection
MaxTensors == 2

\* most scalar elements of one tensor
MaxLen == 2

\* most mutating registry operations in one run
MaxOps == 2

\* most TransformerPlugin subclasses in the namespace of one plugin file
MaxCandidates == 2

\* most entries of a plugin directory
MaxEntries == 2

\* largest grid side handed to _generate_spiral
MaxSide == 5

(* ------------------------------ scalars -------------------------------- *)

Abs(n) == IF n < 0 THEN -n ELSE n

RECURSIVE GCD(_, _)
GCD(a, b) == IF b = 0 THEN a ELSE GCD(b, a % b)

Rat(n, d) ==
    LET g == GCD(Abs(n), Abs(d))
        s == IF d < 0 THEN -1 ELSE 1
    IN  <<(s * n) \div g, (s * d) \div g>>

Zero == <<0, 1>>

One == <<1, 1>>

RatSub(a, b) == Rat(a[1] * b[2] - b[1] * a[2], a[2] * b[2])

RatDiv(a, b) == Rat(a[1] * b[2], a[2] * b[1])

RatLess(a, b) == a[1] * b[2] < b[1] * a[2]

\* the scalar values the input tensors are drawn from
Scalars == {Rat(1, 1), Rat(3, 1)}

(* ------------------------------ arrays --------------------------------- *)

None == [present |-> FALSE, rows |-> <<>>]

Array(rows) == [present |-> TRUE, rows |-> rows]

\* shapes of the input arrays, as <<rows, columns>>: vectors and two-row
\* matrices
Shapes == {sh \in (1..2) \X (1..MaxLen) : sh[1] * sh[2] <= MaxLen}

Arrays ==
    {Array(<<>>)} \cup
    UNION {{Array(m) : m \in [1..sh[1] -> [1..sh[2] -> Scalars]]} : sh \in Shapes}

TensorCollections ==
    UNION {[1..n -> Arrays \cup {None}] : n \in 0..MaxTensors}

\* a row of integer-valued scalars
IntRow(ns) == [i \in 1..Len(ns) |-> Rat(ns[i], 1)]

\* larger collections: the scenarios of the documentation, collections
\* that mix absent, zero-length and non-empty tensors, and collections whose
\* value range is at and just above 1e-6
Scenarios ==
    {<<Array(<<IntRow(<<1, 2>>), IntRow(<<3, 4>>)>>), Array(<<IntRow(<<5, 6>>)>>)>>,
     <<Array(<<IntRow(<<1, 2, 3, 4>>)>>)>>,
     <<Array(<<IntRow(<<0, 0, 10>>)>>)>>,
     <<Array(<<IntRow(<<1, 2, 3>>)>>), None, Array(<<>>),
       Array(<<IntRow(<<4>>), IntRow(<<5>>)>>)>>,
     <<Array(<<IntRow(<<1, 2, 3, 4, 5, 6, 7>>)>>), None,
       Array(<<IntRow(<<-8, 9, 10>>)>>)>>,
     <<Array(<<>>), None, Array(<<>>), Array(<<>>)>>,
     <<Array(<<(<<Zero, Rat(1, 1000000), Zero>>)>>)>>,
     <<Array(<<(<<Rat(1, 500000), Zero>>)>>)>>}

RECURSIVE ConcatRows(_)
ConcatRows(rows) ==
    IF rows = <<>> THEN <<>> ELSE Head(rows) \o ConcatRows(Tail(rows))

\* arr.flatten(): row-major
flatten(arr) == ConcatRows(arr.rows)

\* arr.size
size_of(arr) == Len(flatten(arr))

(* ------------------------------ numpy helpers -------------------------- *)

RECURSIVE CeilSqrtFrom(_, _)
CeilSqrtFrom(n, s) == IF s * s >= n THEN s ELSE CeilSqrtFrom(n, s + 1)

RECURSIVE FloorSqrtFrom(_, _)
FloorSqrtFrom(n, s) == IF (s + 1) * (s + 1) > n THEN s ELSE FloorSqrtFrom(n, s + 1)

CeilSqrt_floor(n) == FloorSqrtFrom(n, 0)

\* int(np.ceil(np.sqrt(n)))
CeilSqrt(n) == CeilSqrtFrom(n, 0)

\* int(np.ceil(n / d))
CeilDiv(n, d) == (n + d - 1) \div d

\* np.zeros((r, c))
zeros(r, c) == [i \in 1..r |-> [j \in 1..c |-> Zero]]

\* grid[row, col] = val with 0-based row and col
SetCell(grid, row, col, val) ==
    [grid EXCEPT ![row + 1] = [@ EXCEPT ![col + 1] = val]]

Max(S) == CHOOSE m \in S : \A x \in S : x <= m

(* ------------------------------ builtin.py ----------------------------- *)

\* the loop "for name, arr in tensors.items(): if arr is None: continue;
\* flat_values.extend(arr.flatten())"
RECURSIVE flat_values_of(_)
flat_values_of(t) ==
    IF t = <<>> THEN <<>>
    ELSE (IF Head(t) = None THEN <<>> ELSE flatten(Head(t)))
             \o flat_values_of(Tail(t))

\* a placement loop that fills column by column: grid[i % size, i // size]
RECURSIVE PlaceRowMajor_colmajor(_, _, _, _)
PlaceRowMajor_colmajor(grid, vals, i, size) ==
    IF i >= Len(vals) \/ i >= size * size THEN grid
    ELSE PlaceRowMajor_colmajor(SetCell(grid, i % size, i \div size, vals[i + 1]),
                                vals, i + 1, size)

\* the loop "for i, val in enumerate(vals[:size*size]):
\* grid[i // size, i % size] = val", from index i on
RECURSIVE PlaceRowMajor(_, _, _, _)
PlaceRowMajor(grid, vals, i, size) ==
    IF i >= Len(vals) \/ i >= size * size THEN grid
    ELSE PlaceRowMajor(SetCell(grid, i \div size, i % size, vals[i + 1]),
                       vals, i + 1, size)

\* a transform without the "flat_values = [0.0]" substitution
FlattenTransformer_transform_nosub(t) ==
    LET flat_values == flat_values_of(t)
        size == CeilSqrt(Len(flat_values))
    IN  PlaceRowMajor(zeros(size, size), flat_values, 0, size)

FlattenTransformer_transform(t) ==
    LET fv0 == flat_values_of(t)
        flat_values == IF fv0 = <<>> THEN <<Zero>> ELSE fv0
        size == CeilSqrt(Len(flat_values))
    IN  PlaceRowMajor(zeros(size, size), flat_values, 0, size)

\* keys of layer_sizes: the positions of the entries that are not None
layer_sizes_keys(t) == {k \in 1..Len(t) : t[k] # None}

RECURSIVE total_elements_of(_)
total_elements_of(t) ==
    IF t = <<>> THEN 0
    ELSE (IF Head(t) # None THEN size_of(Head(t)) ELSE 0)
             + total_elements_of(Tail(t))

\* placement loops that restart current_pos at 0 for every tensor
RECURSIVE LayerWeighted_fill_restart(_, _, _, _, _, _)
LayerWeighted_fill_restart(grid, t, k, j, current_pos, grid_size) ==
    IF k > Len(t) THEN grid
    ELSE IF t[k] = None \/ k \notin layer_sizes_keys(t)
         THEN LayerWeighted_fill_restart(grid, t, k + 1, 0, 0, grid_size)
    ELSE LET flat == flatten(t[k]) IN
         IF j >= Len(flat)
         THEN LayerWeighted_fill_restart(grid, t, k + 1, 0, 0, grid_size)
         ELSE IF current_pos >= grid_size * grid_size
         THEN LayerWeighted_fill_restart(grid, t, k + 1, 0, 0, grid_size)
         ELSE LayerWeighted_fill_restart(
                  SetCell(grid, current_pos \div grid_size,
                          current_pos % grid_size, flat[j + 1]),
                  t, k, j + 1, current_pos + 1, grid_size)

\* the placement loops of LayerWeightedTransformer.transform: entry k,
\* element j of its flattened array, running position current_pos
RECURSIVE LayerWeighted_fill(_, _, _, _, _, _)
LayerWeighted_fill(grid, t, k, j, current_pos, grid_size) ==
    IF k > Len(t) THEN grid
    ELSE IF t[k] = None \/ k \notin layer_sizes_keys(t)
         THEN LayerWeighted_fill(grid, t, k + 1, 0, current_pos, grid_size)
    ELSE LET flat == flatten(t[k]) IN
         IF j >= Len(flat)
         THEN LayerWeighted_fill(grid, t, k + 1, 0, current_pos, grid_size)
         ELSE IF current_pos >= grid_size * grid_size
         THEN LayerWeighted_fill(grid, t, k + 1, 0, current_pos, grid_size)
         ELSE LayerWeighted_fill(
                  SetCell(grid, current_pos \div grid_size,
                          current_pos % grid_size, flat[j + 1]),
                  t, k, j + 1, current_pos + 1, grid_size)

\* a transform without the "total_elements == 0" early return
LayerWeightedTransformer_transform_nocheck(t) ==
    IF t = <<>> THEN zeros(1, 1)
    ELSE LET grid_size == CeilSqrt(total_elements_of(t))
         IN  LayerWeighted_fill(zeros(grid_size, grid_size), t, 1, 0, 0,
                                grid_size)

LayerWeightedTransformer_transform(t) ==
    IF t = <<>> THEN zeros(1, 1)
    ELSE LET total_elements == total_elements_of(t) IN
         IF total_elements = 0 THEN zeros(1, 1)
         ELSE LET grid_size == CeilSqrt(total_elements)
              IN  LayerWeighted_fill(zeros(grid_size, grid_size), t, 1, 0, 0,
                                     grid_size)

\* directions that turn the other way: right, up, left, down
directions_ccw == <<(<<0, 1>>), (<<-1, 0>>), (<<0, -1>>), (<<1, 0>>)>>

\* directions = [(0, 1), (1, 0), (0, -1), (-1, 0)]: right, down, left, up
directions == <<(<<0, 1>>), (<<1, 0>>), (<<0, -1>>), (<<-1, 0>>)>>

\* the loops of _generate_spiral: leg is the pass of "for _ in range(2)",
\* k the pass of "for _ in range(steps)"
RECURSIVE spiral_walk(_, _, _, _, _, _, _, _)
spiral_walk(coords, x, y, dir_idx, steps, leg, k, size) ==
    IF leg = 0 /\ k = 0 /\ Len(coords) >= size * size THEN coords
    ELSE IF k < steps
    THEN LET x1 == x + directions[dir_idx + 1][1]
             y1 == y + directions[dir_idx + 1][2]
             coords1 == IF 0 <= x1 /\ x1 < size /\ 0 <= y1 /\ y1 < size
                        THEN Append(coords, <<x1, y1>>)
                        ELSE coords
         IN  IF Len(coords1) >= size * size THEN coords1
             ELSE spiral_walk(coords1, x1, y1, dir_idx, steps, leg, k + 1, size)
    ELSE IF leg = 0
    THEN spiral_walk(coords, x, y, (dir_idx + 1) % 4, steps, 1, 0, size)
    ELSE spiral_walk(coords, x, y, (dir_idx + 1) % 4, steps + 1, 0, 0, size)

generate_spiral(size) ==
    spiral_walk(<<(<<size \div 2, size \div 2>>)>>, size \div 2, size \div 2,
                0, 1, 0, 0, size)

\* "for i, val in enumerate(flat_values[:len(coords)]): grid[coords[i]] = val"
RECURSIVE PlaceCoords(_, _, _, _)
PlaceCoords(grid, vals, coords, i) ==
    IF i >= Len(vals) \/ i >= Len(coords) THEN grid
    ELSE PlaceCoords(SetCell(grid, coords[i + 1][1], coords[i + 1][2],
                             vals[i + 1]),
                     vals, coords, i + 1)

SpiralTransformer_transform(t) ==
    LET fv0 == flat_values_of(t)
        flat_values == IF fv0 = <<>> THEN <<Zero>> ELSE fv0
        size == CeilSqrt(Len(flat_values))
        coords == generate_spiral(size)
    IN  PlaceCoords(zeros(size, size), flat_values, coords, 0)

\* flat_array.min()
RECURSIVE min_of(_)
min_of(vals) ==
    IF Len(vals) = 1 THEN vals[1]
    ELSE LET m == min_of(Tail(vals))
         IN  IF RatLess(m, Head(vals)) THEN m ELSE Head(vals)

\* flat_array.max()
RECURSIVE max_of(_)
max_of(vals) ==
    IF Len(vals) = 1 THEN vals[1]
    ELSE LET m == max_of(Tail(vals))
         IN  IF RatLess(Head(vals), m) THEN m ELSE Head(vals)

\* the threshold 1e-6 of NormalizedTransformer.transform
NormEps == Rat(1, 1000000)

\* a transform that normalises whenever max_val - min_val > 0
NormalizedTransformer_transform_nothreshold(t) ==
    LET flat_values == flat_values_of(t) IN
    IF flat_values = <<>> THEN zeros(1, 1)
    ELSE LET min_val == min_of(flat_values)
             max_val == max_of(flat_values)
             range == RatSub(max_val, min_val)
             flat_array ==
                 IF RatLess(Zero, range)
                 THEN [i \in 1..Len(flat_values) |->
                          RatDiv(RatSub(flat_values[i], min_val), range)]
                 ELSE flat_values
             size == CeilSqrt(Len(flat_array))
         IN  PlaceRowMajor(zeros(size, size), flat_array, 0, size)

NormalizedTransformer_transform(t) ==
    LET flat_values == flat_values_of(t) IN
    IF flat_values = <<>> THEN zeros(1, 1)
    ELSE LET min_val == min_of(flat_values)
             max_val == max_of(flat_values)
             range == RatSub(max_val, min_val)
             flat_array ==
                 IF RatLess(NormEps, range)
                 THEN [i \in 1..Len(flat_values) |->
                          RatDiv(RatSub(flat_values[i], min_val), range)]
                 ELSE flat_values
             size == CeilSqrt(Len(flat_array))
         IN  PlaceRowMajor(zeros(size, size), flat_array, 0, size)

\* a placement loop that starts at the corner of the layer grid:
\* layer_grid[i // size, i % size] = val
RECURSIVE PlaceBordered_noborder(_, _, _, _)
PlaceBordered_noborder(layer_grid, flat, i, size) ==
    IF i >= Len(flat) \/ i >= size * size THEN layer_grid
    ELSE PlaceBordered_noborder(SetCell(layer_grid, i \div size, i % size,
                                        flat[i + 1]),
                                flat, i + 1, size)

\* the loop "for i, val in enumerate(flat[:size*size]):
\* layer_grid[(i // size) + 1, (i % size) + 1] = val", from index i on
RECURSIVE PlaceBordered(_, _, _, _)
PlaceBordered(layer_grid, flat, i, size) ==
    IF i >= Len(flat) \/ i >= size * size THEN layer_grid
    ELSE PlaceBordered(SetCell(layer_grid, (i \div size) + 1, (i % size) + 1,
                               flat[i + 1]),
                       flat, i + 1, size)

\* a first loop that gives an entry that is None a bordered grid of its own
RECURSIVE layer_grids_of_noskip(_)
layer_grids_of_noskip(t) ==
    IF t = <<>> THEN <<>>
    ELSE LET flat == flatten(Head(t))
             size == CeilSqrt(Len(flat))
         IN  <<PlaceBordered(zeros(size + 2, size + 2), flat, 0, size)>>
                 \o layer_grids_of_noskip(Tail(t))

\* the first loop of LayerSeparatedTransformer.transform: one bordered grid
\* for every entry that is not None
RECURSIVE layer_grids_of(_)
layer_grids_of(t) ==
    IF t = <<>> THEN <<>>
    ELSE IF Head(t) = None THEN layer_grids_of(Tail(t))
    ELSE LET flat == flatten(Head(t))
             size == CeilSqrt(Len(flat))
         IN  <<PlaceBordered(zeros(size + 2, size + 2), flat, 0, size)>>
                 \o layer_grids_of(Tail(t))

\* final_grid[start_row:start_row+h, start_col:start_col+w] = layer_grid
SetBlock(final_grid, start_row, start_col, layer_grid) ==
    LET h == Len(layer_grid)
        w == IF h = 0 THEN 0 ELSE Len(layer_grid[1])
    IN  [r \in 1..Len(final_grid) |->
            [c \in 1..Len(final_grid[r]) |->
                IF /\ start_row < r /\ r <= start_row + h
                   /\ start_col < c /\ c <= start_col + w
                THEN layer_grid[r - start_row][c - start_col]
                ELSE final_grid[r][c]]]

\* the loop "for idx, layer_grid in enumerate(layer_grids)", from idx on
RECURSIVE LayerSeparated_tile(_, _, _, _, _, _)
LayerSeparated_tile(final_grid, layer_grids, idx, cols, max_h, max_w) ==
    IF idx >= Len(layer_grids) THEN final_grid
    ELSE LayerSeparated_tile(
             SetBlock(final_grid, (idx \div cols) * max_h, (idx % cols) * max_w,
                      layer_grids[idx + 1]),
             layer_grids, idx + 1, cols, max_h, max_w)

LayerSeparatedTransformer_transform(t) ==
    IF t = <<>> THEN zeros(1, 1)
    ELSE LET layer_grids == layer_grids_of(t) IN
         IF layer_grids = <<>> THEN zeros(1, 1)
         ELSE LET n_layers == Len(layer_grids)
                  cols == CeilSqrt(n_layers)
                  rows == CeilDiv(n_layers, cols)
                  max_h == Max({Len(layer_grids[i]) : i \in 1..n_layers})
                  max_w == Max({Len(layer_grids[i][1]) : i \in 1..n_layers})
              IN  LayerSeparated_tile(zeros(rows * max_h, cols * max_w),
                                      layer_grids, 0, cols, max_h, max_w)

(* ------------------------------ example_plugin.py ---------------------- *)

\* the loop "for i, val in enumerate(flat_values[:size*size]):
\* idx = (size * size - 1) - i; grid[idx // size, idx % size] = val"
RECURSIVE PlaceReversed(_, _, _, _)
PlaceReversed(grid, vals, i, size) ==
    IF i >= Len(vals) \/ i >= size * size THEN grid
    ELSE LET idx == (size * size - 1) - i
         IN  PlaceReversed(SetCell(grid, idx \div size, idx % size, vals[i + 1]),
                           vals, i + 1, size)

ReversedTransformer_transform(t) ==
    LET fv0 == flat_values_of(t)
        flat_values == IF fv0 = <<>> THEN <<Zero>> ELSE fv0
        size == CeilSqrt(Len(flat_values))
    IN  PlaceReversed(zeros(size, size), flat_values, 0, size)

(* ------------------------------ plugin objects ------------------------- *)

\* the value None where a plugin is expected
NonePlugin ==
    [id |-> 0, cls |-> "NoneType", name |-> "None", can |-> FALSE,
     hooks |-> "default"]

BuiltinClasses ==
    <<"FlattenTransformer", "LayerWeightedTransformer", "SpiralTransformer",
      "NormalizedTransformer", "LayerSeparatedTransformer">>

\* the classes that derive from TransformerPlugin
PluginClasses ==
    {BuiltinClasses[i] : i \in 1..Len(BuiltinClasses)} \cup {"ReversedTransformer"}

\* the name property of each built-in class
builtin_name(cls) ==
    CASE cls = "FlattenTransformer" -> "flatten"
      [] cls = "LayerWeightedTransformer" -> "layer_weighted"
      [] cls = "SpiralTransformer" -> "spiral"
      [] cls = "NormalizedTransformer" -> "normalized"
      [] cls = "LayerSeparatedTransformer" -> "layer_separated"

\* the i-th instance constructed by _load_builtin_plugins; the built-ins
\* inherit can_handle (always True) and the identity hooks
Builtin(i) ==
    [id |-> i, cls |-> BuiltinClasses[i], name |-> builtin_name(BuiltinClasses[i]),
     can |-> TRUE, hooks |-> "default"]

BuiltinPlugins == {Builtin(i) : i \in 1..Len(BuiltinClasses)}

\* names a custom plugin may report: its own, a built-in's, the empty string
CustomNames == <<"reversed", "flatten", "">>

\* custom plugins: ReversedTransformer and subclasses of it that override
\* name, can_handle or the preprocess/postprocess hooks
Custom(i, c, h) ==
    [id |-> 5 + 4 * (i - 1) + (IF c THEN 1 ELSE 2) + (IF h = "default" THEN 0 ELSE 2),
     cls |-> "ReversedTransformer", name |-> CustomNames[i], can |-> c,
     hooks |-> h]

CustomPlugins ==
    {Custom(i, c, h) : i \in 1..Len(CustomNames), c \in BOOLEAN,
                       h \in {"default", "custom"}}

\* objects that are not TransformerPlugin instances (one of them duck-typed)
NonPlugins ==
    {[id |-> 100, cls |-> "object", name |-> "flatten", can |-> TRUE,
      hooks |-> "default"],
     [id |-> 101, cls |-> "str", name |-> "spiral", can |-> TRUE,
      hooks |-> "default"]}

Objects == BuiltinPlugins \cup CustomPlugins \cup NonPlugins

\* the marker for "plugin_name not given" (plugin_name=None)
NoName == "<None>"

Names ==
    {builtin_name(BuiltinClasses[i]) : i \in 1..Len(BuiltinClasses)}
        \cup {CustomNames[i] : i \in 1..Len(CustomNames)} \cup {"doesnotexist"}

\* the description property: each built-in class returns its own text,
\* ReversedTransformer and its subclasses return the text of
\* example_plugin.py
description(p) ==
    CASE p.cls = "FlattenTransformer" ->
             "Flattens all tensors into a square grid (default behavior)"
      [] p.cls = "LayerWeightedTransformer" ->
             "Arranges layers in blocks, larger layers get more space"
      [] p.cls = "SpiralTransformer" ->
             "Arranges weights in a spiral pattern from center outward"
      [] p.cls = "NormalizedTransformer" ->
             "Normalizes all weights to [0, 1] range before visualization"
      [] p.cls = "LayerSeparatedTransformer" ->
             "Separates layers with visible boundaries in the grid"
      [] p.cls = "ReversedTransformer" ->
             "Fills grid in reverse order for a different perspective"

(* ------------------------------ base.py -------------------------------- *)

\* isinstance(obj, TransformerPlugin)
IsTransformerPlugin(obj) == obj.cls \in PluginClasses

\* plugin.can_handle(tensors)
can_handle(p, t) == p.can

Reverse(s) == [i \in 1..Len(s) |-> s[Len(s) + 1 - i]]

\* plugin.preprocess(tensors): the identity unless overridden; the
\* overriding hook of the custom plugins reorders the entries
preprocess(p, t) == IF p.hooks = "default" THEN t ELSE Reverse(t)

Clip01(v) == IF RatLess(v, Zero) THEN Zero ELSE IF RatLess(One, v) THEN One ELSE v

\* plugin.postprocess(grid): the identity unless overridden; the overriding
\* hook of the custom plugins clips every cell to [0, 1]
postprocess(p, grid) ==
    IF p.hooks = "default" THEN grid
    ELSE [r \in 1..Len(grid) |-> [c \in 1..Len(grid[r]) |-> Clip01(grid[r][c])]]

\* plugin.transform(tensors)
transform(p, t) ==
    CASE p.cls = "FlattenTransformer" -> FlattenTransformer_transform(t)
      [] p.cls = "LayerWeightedTransformer" -> LayerWeightedTransformer_transform(t)
      [] p.cls = "SpiralTransformer" -> SpiralTransformer_transform(t)
      [] p.cls = "NormalizedTransformer" -> NormalizedTransformer_transform(t)
      [] p.cls = "LayerSeparatedTransformer" -> LayerSeparatedTransformer_transform(t)
      [] p.cls = "ReversedTransformer" -> ReversedTransformer_transform(t)

Stage(name, input, output) == [stage |-> name, input |-> input, output |-> output]

\* a pipeline that hands the caller the result of transform
call_raw(p, t) ==
    LET t1 == preprocess(p, t)
        grid1 == transform(p, t1)
    IN  [ret |-> grid1,
         log |-> <<Stage("preprocess", t, t1), Stage("transform", t1, grid1)>>]

\* TransformerPlugin.__call__: the value returned and the stages executed
call(p, t) ==
    LET t1 == preprocess(p, t)
        grid1 == transform(p, t1)
        grid2 == postprocess(p, grid1)
    IN  [ret |-> grid2,
         log |-> <<Stage("preprocess", t, t1), Stage("transform", t1, grid1),
                   Stage("postprocess", grid1, grid2)>>]

(* ------------------------------ registry.py ---------------------------- *)

\* position of the key name in the dict, 0 when it is not a key
IndexOf(reg, name) ==
    IF \E i \in 1..Len(reg) : reg[i].name = name
    THEN CHOOSE i \in 1..Len(reg) : reg[i].name = name
    ELSE 0

\* a store that adds an entry without looking for the key
DictSet_append(reg, p) == Append(reg, p)

\* self._plugins[plugin.name] = plugin: an existing key keeps its position
DictSet(reg, p) ==
    IF IndexOf(reg, p.name) = 0 THEN Append(reg, p)
    ELSE [reg EXCEPT ![IndexOf(reg, p.name)] = p]

\* del self._plugins[name]
DictDel(reg, name) ==
    LET i == IndexOf(reg, name)
    IN  SubSeq(reg, 1, i - 1) \o SubSeq(reg, i + 1, Len(reg))

\* a register that accepts any object
register_unchecked(reg, obj) == [plugins |-> DictSet(reg, obj), exc |-> "none"]

\* a register that keeps the plugin a name already has
register_keep(reg, obj) ==
    IF ~IsTransformerPlugin(obj) THEN [plugins |-> reg, exc |-> "TypeError"]
    ELSE IF IndexOf(reg, obj.name) # 0 THEN [plugins |-> reg, exc |-> "none"]
    ELSE [plugins |-> DictSet(reg, obj), exc |-> "none"]

\* PluginRegistry.register: the dict afterwards and the exception raised
register(reg, obj) ==
    IF ~IsTransformerPlugin(obj) THEN [plugins |-> reg, exc |-> "TypeError"]
    ELSE [plugins |-> DictSet(reg, obj), exc |-> "none"]

\* an unregister that drops the slot inserted last: self._plugins.popitem()
unregister_popitem(reg, name) ==
    IF IndexOf(reg, name) # 0 THEN SubSeq(reg, 1, Len(reg) - 1) ELSE reg

\* PluginRegistry.unregister
unregister(reg, name) ==
    IF IndexOf(reg, name) # 0 THEN DictDel(reg, name) ELSE reg

\* PluginRegistry.get
get(reg, name) ==
    IF IndexOf(reg, name) # 0 THEN reg[IndexOf(reg, name)] ELSE NonePlugin

\* the value None where a description is expected
NoDescription == "<None>"

\* an accessor that returns the name of the plugin
get_plugin_info_name(reg, name) ==
    IF get(reg, name) # NonePlugin THEN get(reg, name).name ELSE NoDescription

\* PluginRegistry.get_plugin_info: "plugin = self.get(name); return
\* plugin.description if plugin else None"
get_plugin_info(reg, name) ==
    IF get(reg, name) # NonePlugin THEN description(get(reg, name))
    ELSE NoDescription

\* PluginRegistry.list_plugins
list_plugins(reg) == [i \in 1..Len(reg) |-> reg[i].name]

\* the registrations of _load_builtin_plugins, from the i-th on
RECURSIVE load_builtin_plugins(_, _)
load_builtin_plugins(reg, i) ==
    IF i > Len(BuiltinClasses) THEN reg
    ELSE load_builtin_plugins(register(reg, Builtin(i)).plugins, i + 1)

\* a construction that misses the first built-in
PluginRegistry_init_four == load_builtin_plugins(<<>>, 2)

\* PluginRegistry.__init__
PluginRegistry_init == load_builtin_plugins(<<>>, 1)

\* a search that goes through the registry from its last slot to its first
RECURSIVE find_compatible_plugin_down(_, _, _)
find_compatible_plugin_down(reg, t, i) ==
    IF i = 0 THEN NonePlugin
    ELSE IF can_handle(reg[i], t) THEN reg[i]
    ELSE find_compatible_plugin_down(reg, t, i - 1)

find_compatible_plugin_last(reg, t) == find_compatible_plugin_down(reg, t, Len(reg))

\* a search that returns the first plugin of the registry, compatible or not
find_compatible_plugin_first(reg, t) ==
    IF reg = <<>> THEN NonePlugin ELSE reg[1]

\* the loop "for plugin in self._plugins.values(): if
\* plugin.can_handle(tensors): return plugin", from slot i on; "return None"
\* after the loop
RECURSIVE find_compatible_plugin_from(_, _, _)
find_compatible_plugin_from(reg, t, i) ==
    IF i > Len(reg) THEN NonePlugin
    ELSE IF can_handle(reg[i], t) THEN reg[i]
    ELSE find_compatible_plugin_from(reg, t, i + 1)

\* PluginRegistry.find_compatible_plugin
find_compatible_plugin(reg, t) == find_compatible_plugin_from(reg, t, 1)

\* no private PluginRegistry has been constructed
NoRegistry == [constructed |-> FALSE, plugins |-> <<>>]

\* no _generate_spiral call is running
NoSpiral ==
    [pc |-> "idle", size |-> 0, coords |-> <<>>, x |-> 0, y |-> 0,
     dir_idx |-> 0, steps |-> 0, leg |-> 0, k |-> 0]

\* sys.modules has no "custom_plugin" entry
NoModule == [kind |-> "none", error |-> "none", candidates |-> <<>>]

\* what "plugin_instance = attr(); self.register(plugin_instance)" does for
\* a candidate class: both succeed, attr() raises (an abstract class, a
\* constructor with required arguments), or the name property raises
\* inside register
CandidateOutcomes == {"ok", "ctor_raises", "name_raises"}

\* the instances the candidate classes of a plugin file construct:
\* ReversedTransformer and two classes whose name is "flatten"
CandidateObjects ==
    {Custom(1, TRUE, "default"), Custom(2, TRUE, "default"),
     Custom(2, FALSE, "custom")}

Candidates == [outcome : CandidateOutcomes, obj : CandidateObjects]

CandidateLists == UNION {[1..n -> Candidates] : n \in 0..MaxCandidates}

\* the exceptions exec_module raises for a source that does not compile or
\* that raises while it runs
ExecErrors == {"SyntaxError", "RuntimeError"}

\* the filepath arguments: no such path, a path importlib has no loader
\* for, a source whose execution raises, a source that executes
PluginFiles ==
    {[kind |-> k, error |-> "none", candidates |-> <<>>] :
         k \in {"missing", "noloader"}}
    \cup [kind : {"execraises"}, error : ExecErrors, candidates : CandidateLists]
    \cup [kind : {"ok"}, error : {"none"}, candidates : CandidateLists]

\* a loop that gives up at the first candidate that raises
RECURSIVE load_candidates_abort(_, _, _)
load_candidates_abort(reg, cands, i) ==
    IF i > Len(cands) THEN reg
    ELSE IF cands[i].outcome # "ok" THEN reg
    ELSE load_candidates_abort(register(reg, cands[i].obj).plugins, cands, i + 1)

\* the loop "for attr_name in dir(module)" over the candidate classes, from
\* the i-th on: "try: plugin_instance = attr(); self.register(...)
\* except Exception: print(warning)"
RECURSIVE load_candidates(_, _, _)
load_candidates(reg, cands, i) ==
    IF i > Len(cands) THEN reg
    ELSE LET r == IF cands[i].outcome = "ok" THEN register(reg, cands[i].obj)
                  ELSE [plugins |-> reg, exc |-> "Exception"]
         IN  load_candidates(IF r.exc = "none" THEN r.plugins ELSE reg,
                             cands, i + 1)

\* a loader that catches the exception of exec_module and goes on with the
\* classes the module defined before it
load_from_file_lenient(reg, f) ==
    IF f.kind = "missing"
    THEN [plugins |-> reg, exc |-> "FileNotFoundError", module |-> FALSE]
    ELSE IF f.kind = "noloader"
    THEN [plugins |-> reg, exc |-> "ImportError", module |-> FALSE]
    ELSE [plugins |-> load_candidates(reg, f.candidates, 1), exc |-> "none",
          module |-> TRUE]

\* PluginRegistry.load_from_file: the registry after the call, the
\* exception it raises, and whether sys.modules["custom_plugin"] was set
load_from_file(reg, f) ==
    IF f.kind = "missing"
    THEN [plugins |-> reg, exc |-> "FileNotFoundError", module |-> FALSE]
    ELSE IF f.kind = "noloader"
    THEN [plugins |-> reg, exc |-> "ImportError", module |-> FALSE]
    ELSE IF f.kind = "execraises"
    THEN [plugins |-> reg, exc |-> f.error, module |-> TRUE]
    ELSE [plugins |-> load_candidates(reg, f.candidates, 1), exc |-> "none",
          module |-> TRUE]

\* the files found in plugin directories: gone by the time it is loaded, a
\* source that defines a plugin and then raises, a source without plugin
\* classes, sources with one plugin class
DirFiles ==
    {[kind |-> "missing", error |-> "none", candidates |-> <<>>],
     [kind |-> "execraises", error |-> "RuntimeError",
      candidates |-> <<[outcome |-> "ok", obj |-> Custom(1, TRUE, "default")]>>],
     [kind |-> "ok", error |-> "none", candidates |-> <<>>],
     [kind |-> "ok", error |-> "none",
      candidates |-> <<[outcome |-> "ok", obj |-> Custom(1, TRUE, "default")]>>],
     [kind |-> "ok", error |-> "none",
      candidates |-> <<[outcome |-> "ok", obj |-> Custom(2, TRUE, "default")]>>],
     [kind |-> "ok", error |-> "none",
      candidates |-> <<[outcome |-> "ctor_raises",
                        obj |-> Custom(1, TRUE, "default")]>>]}

\* an entry of os.listdir(directory): whether its name starts with "_",
\* its extension, and what the path leads to
DirEntries == [underscore : BOOLEAN, ext : {"py", "txt"}, file : DirFiles]

\* the directory arguments with at most n entries; isdir is
\* os.path.isdir(directory)
Directories(n) ==
    {[isdir |-> FALSE, entries |-> <<>>]}
    \cup [isdir : {TRUE}, entries : UNION {[1..k -> DirEntries] : k \in 0..n}]

\* filename.endswith('.py') and not filename.startswith('_')
is_plugin_filename(e) == e.ext = "py" /\ ~e.underscore

\* a loop without the try/except around load_from_file: the first failure
\* ends it and reaches the caller
RECURSIVE load_entries_notry(_, _, _, _, _)
load_entries_notry(reg, entries, i, attempted, mod) ==
    IF i > Len(entries)
    THEN [plugins |-> reg, exc |-> "none", attempted |-> attempted, module |-> mod]
    ELSE IF is_plugin_filename(entries[i])
    THEN LET r == load_from_file(reg, entries[i].file)
             m == IF r.module THEN entries[i].file ELSE mod
         IN  IF r.exc # "none"
             THEN [plugins |-> r.plugins, exc |-> r.exc,
                   attempted |-> Append(attempted, i), module |-> m]
             ELSE load_entries_notry(r.plugins, entries, i + 1,
                                     Append(attempted, i), m)
    ELSE load_entries_notry(reg, entries, i + 1, attempted, mod)

\* the loop "for filename in os.listdir(directory)", from the i-th entry
\* on: "try: self.load_from_file(filepath) except Exception: print(...)";
\* attempted lists the entries load_from_file was called for
RECURSIVE load_entries(_, _, _, _, _)
load_entries(reg, entries, i, attempted, mod) ==
    IF i > Len(entries)
    THEN [plugins |-> reg, exc |-> "none", attempted |-> attempted, module |-> mod]
    ELSE IF is_plugin_filename(entries[i])
    THEN LET r == load_from_file(reg, entries[i].file)
         IN  load_entries(r.plugins, entries, i + 1, Append(attempted, i),
                          IF r.module THEN entries[i].file ELSE mod)
    ELSE load_entries(reg, entries, i + 1, attempted, mod)

\* a load_from_directory whose loop has no try/except
load_from_directory_notry(reg, d, mod) ==
    IF ~d.isdir
    THEN [plugins |-> reg, exc |-> "NotADirectoryError", attempted |-> <<>>,
          module |-> mod]
    ELSE load_entries_notry(reg, d.entries, 1, <<>>, mod)

\* PluginRegistry.load_from_directory: the registry after the call, the
\* exception it raises, the entries it tried to load and the module left in
\* sys.modules["custom_plugin"] (mod before the call)
load_from_directory(reg, d, mod) ==
    IF ~d.isdir
    THEN [plugins |-> reg, exc |-> "NotADirectoryError", attempted |-> <<>>,
          module |-> mod]
    ELSE load_entries(reg, d.entries, 1, <<>>, mod)

(* ------------------------------ transformer.py ------------------------- *)

\* an inline algorithm without the "flat_values = [0.0]" substitution
fallback_grid_nosub(t) ==
    LET flat_values == flat_values_of(t)
        size == CeilSqrt(Len(flat_values))
    IN  PlaceRowMajor(zeros(size, size), flat_values, 0, size)

\* "Fallback to original implementation": the inline algorithm
fallback_grid(t) ==
    LET fv0 == flat_values_of(t)
        flat_values == IF fv0 = <<>> THEN <<Zero>> ELSE fv0
        size == CeilSqrt(Len(flat_values))
    IN  PlaceRowMajor(zeros(size, size), flat_values, 0, size)

\* truth value of the argument plugin_name: None and "" are both false
NameGiven(plugin_name) == plugin_name # NoName /\ plugin_name # ""

\* a resolution that does not retry with "flatten" when the name is unknown
resolve_noretry(reg, plugin_name) ==
    IF NameGiven(plugin_name) THEN get(reg, plugin_name) ELSE get(reg, "flatten")

\* a resolution whose default is the built-in FlattenTransformer itself,
\* not the plugin in the "flatten" slot
resolve_default_builtin(reg, plugin_name) ==
    IF NameGiven(plugin_name)
    THEN IF get(reg, plugin_name) = NonePlugin
         THEN get(reg, "flatten")
         ELSE get(reg, plugin_name)
    ELSE Builtin(1)

\* the plugin to_neutral_grid resolves, NonePlugin when it finds none
resolve(reg, plugin_name) ==
    IF NameGiven(plugin_name)
    THEN IF get(reg, plugin_name) = NonePlugin
         THEN get(reg, "flatten")
         ELSE get(reg, plugin_name)
    ELSE get(reg, "flatten")

\* to_neutral_grid on the global registry reg: the grid returned and the
\* pipeline stages executed
to_neutral_grid(reg, t, plugin_name) ==
    LET plugin == resolve(reg, plugin_name)
    IN  IF plugin # NonePlugin THEN call(plugin, t)
        ELSE [ret |-> fallback_grid(t), log |-> <<>>]

\* to_neutral_grid when "from torch2grid.plugins.registry import
\* get_registry" raises ImportError: "except ImportError: pass", then the
\* inline algorithm
to_neutral_grid_import_error(t) == [ret |-> fallback_grid(t), log |-> <<>>]

(* ------------------------------ state machine -------------------------- *)

\* the record of the operation performed last
Op(op, obj, name, exc, ret, before) ==
    [op |-> op, obj |-> obj, name |-> name, exc |-> exc, ret |-> ret,
     before |-> before]

NoOp == Op("none", NonePlugin, NoName, "none", <<>>, <<>>)

\* the collections handed to to_neutral_grid while the registry changes
TensorSamples ==
    {<<>>,
     <<Array(<<IntRow(<<1, 3>>)>>), None>>,
     <<Array(<<IntRow(<<3, 1, 3>>)>>), Array(<<IntRow(<<1>>), IntRow(<<3>>)>>)>>}

\* the module-level "_global_registry = PluginRegistry()"
Init ==
    /\ plugins = PluginRegistry_init
    /\ ops = 0
    /\ last = NoOp
    /\ tensors = <<>>
    /\ calllog = <<>>
    /\ custom_plugin = NoModule
    /\ private = NoRegistry
    /\ spiral = NoSpiral

\* get_registry().register(obj)
Register(obj) ==
    /\ ops < MaxOps
    /\ plugins' = register(plugins, obj).plugins
    /\ last' = Op("register", obj, obj.name, register(plugins, obj).exc, <<>>,
                  plugins)
    /\ ops' = ops + 1
    /\ UNCHANGED <<tensors, calllog, custom_plugin, private, spiral>>

\* get_registry().unregister(name)
Unregister(name) ==
    /\ ops < MaxOps
    /\ plugins' = unregister(plugins, name)
    /\ last' = Op("unregister", NonePlugin, name, "none", <<>>, plugins)
    /\ ops' = ops + 1
    /\ UNCHANGED <<tensors, calllog, custom_plugin, private, spiral>>

\* to_neutral_grid(t, plugin_name)
ToNeutralGrid(t, plugin_name) ==
    /\ tensors' = t
    /\ last' = Op("to_neutral_grid", resolve(plugins, plugin_name), plugin_name,
                  "none", to_neutral_grid(plugins, t, plugin_name).ret, plugins)
    /\ calllog' = to_neutral_grid(plugins, t, plugin_name).log
    /\ UNCHANGED <<plugins, ops, custom_plugin, private, spiral>>

\* plugin(t) for a plugin object the caller holds
CallPlugin(p, t) ==
    /\ tensors' = t
    /\ last' = Op("__call__", p, p.name, "none", call(p, t).ret, plugins)
    /\ calllog' = call(p, t).log
    /\ UNCHANGED <<plugins, ops, custom_plugin, private, spiral>>

Next ==
    \/ \E obj \in Objects : Register(obj)
    \/ \E name \in Names : Unregister(name)
    \/ \E t \in TensorSamples, n \in Names \cup {NoName} : ToNeutralGrid(t, n)

\* the registry and to_neutral_grid under register/unregister
Spec == Init /\ [][Next]_vars

\* one TensorCollection, the registry as constructed
InitGrid ==
    /\ plugins = PluginRegistry_init
    /\ ops = 0
    /\ last = NoOp
    /\ tensors \in TensorCollections \cup Scenarios
    /\ calllog = <<>>
    /\ custom_plugin = NoModule
    /\ private = NoRegistry
    /\ spiral = NoSpiral

\* transformer(tensors) on the collection, once: the transformers keep no
\* state between calls
GridCall(p) == last.op = "none" /\ CallPlugin(p, tensors)

\* to_neutral_grid(tensors, plugin_name) on the collection, once
GridToNeutralGrid(plugin_name) ==
    last.op = "none" /\ ToNeutralGrid(tensors, plugin_name)

NextGrid ==
    \/ \E p \in BuiltinPlugins \cup CustomPlugins : GridCall(p)
    \/ \E n \in Names \cup {NoName} : GridToNeutralGrid(n)

\* the transformers and to_neutral_grid on every bounded TensorCollection
SpecGrid == InitGrid /\ [][NextGrid]_vars

\* get_registry().find_compatible_plugin(t)
FindCompatiblePlugin(t) ==
    /\ tensors' = t
    /\ last' = Op("find_compatible_plugin", find_compatible_plugin(plugins, t),
                  NoName, "none", <<>>, plugins)
    /\ UNCHANGED <<plugins, ops, calllog, custom_plugin, private, spiral>>

\* the registry as constructed, or after unregister of its first k - 1
\* built-ins (k = 6: every built-in unregistered)
InitFind ==
    /\ plugins \in {SubSeq(PluginRegistry_init, k, Len(PluginRegistry_init)) :
                        k \in 1..(Len(PluginRegistry_init) + 1)}
    /\ ops = 0
    /\ last = NoOp
    /\ tensors = <<>>
    /\ calllog = <<>>
    /\ custom_plugin = NoModule
    /\ private = NoRegistry
    /\ spiral = NoSpiral

NextFind ==
    \/ \E obj \in CustomPlugins : Register(obj)
    \/ \E name \in Names : Unregister(name)
    \/ \E t \in TensorSamples : FindCompatiblePlugin(t)

\* find_compatible_plugin on registries that register/unregister reshaped
SpecFind == InitFind /\ [][NextFind]_vars

\* get_registry().load_from_file(f)
LoadFromFile(f) ==
    /\ plugins' = load_from_file(plugins, f).plugins
    /\ last' = Op("load_from_file", f, NoName, load_from_file(plugins, f).exc,
                  <<>>, plugins)
    /\ custom_plugin' = IF load_from_file(plugins, f).module THEN f
                        ELSE custom_plugin
    /\ UNCHANGED <<tensors, calllog, private, spiral>>

\* one load_from_file call on the registry
LoadOnce(f) == last.op = "none" /\ LoadFromFile(f) /\ UNCHANGED ops

NextLoad == \E f \in PluginFiles : LoadOnce(f)

\* load_from_file on the registry as constructed or after unregister of its
\* leading built-ins
SpecLoad == InitFind /\ [][NextLoad]_vars

\* registry = PluginRegistry() in the caller's code
ConstructPrivate ==
    /\ ~private.constructed
    /\ private' = [constructed |-> TRUE, plugins |-> PluginRegistry_init]
    /\ last' = Op("PluginRegistry", NonePlugin, NoName, "none", <<>>, plugins)
    /\ UNCHANGED <<plugins, ops, tensors, calllog, custom_plugin, spiral>>

\* registry.register(obj) on the private instance: self._plugins is an
\* attribute of the instance
RegisterPrivate(obj) ==
    /\ private.constructed
    /\ ops < MaxOps
    /\ private' = [private EXCEPT !.plugins = register(@, obj).plugins]
    /\ last' = Op("private.register", obj, obj.name,
                  register(private.plugins, obj).exc, <<>>, plugins)
    /\ ops' = ops + 1
    /\ UNCHANGED <<plugins, tensors, calllog, custom_plugin, spiral>>

\* the custom plugins that keep the inherited can_handle
CompatibleCustoms == {p \in CustomPlugins : p.can}

NextPrivate ==
    \/ ConstructPrivate
    \/ \E obj \in CompatibleCustoms : RegisterPrivate(obj)
    \/ \E obj \in CompatibleCustoms : Register(obj)
    \/ \E t \in TensorSamples, n \in Names \cup {NoName} : ToNeutralGrid(t, n)

\* the global registry next to a private one
SpecPrivate == Init /\ [][NextPrivate]_vars

\* to_neutral_grid(t, plugin_name) in a process where the plugin package
\* cannot be imported
ToNeutralGridImportError(t, plugin_name) ==
    /\ tensors' = t
    /\ last' = Op("to_neutral_grid_import_error", NonePlugin, plugin_name,
                  "none", to_neutral_grid_import_error(t).ret, plugins)
    /\ calllog' = to_neutral_grid_import_error(t).log
    /\ UNCHANGED <<plugins, ops, custom_plugin, private, spiral>>

\* to_neutral_grid(tensors, plugin_name) on the collection, once
FallbackToNeutralGrid(plugin_name) ==
    /\ last.op \in {"none", "unregister"}
    /\ ToNeutralGrid(tensors, plugin_name)

FallbackImportError(plugin_name) ==
    /\ last.op \in {"none", "unregister"}
    /\ ToNeutralGridImportError(tensors, plugin_name)

NextFallback ==
    \/ \E name \in {"flatten"} : Unregister(name)
    \/ \E n \in {NoName, "flatten", "doesnotexist"} : FallbackToNeutralGrid(n)
    \/ \E n \in {NoName, "spiral"} : FallbackImportError(n)

\* to_neutral_grid on every bounded TensorCollection with the "flatten"
\* slot in use or empty
SpecFallback == InitGrid /\ [][NextFallback]_vars

\* get_registry().load_from_directory(d)
LoadFromDirectory(d) ==
    LET r == load_from_directory(plugins, d, custom_plugin)
    IN  /\ plugins' = r.plugins
        /\ last' = Op("load_from_directory", d, NoName, r.exc, r.attempted,
                      plugins)
        /\ custom_plugin' = r.module
        /\ UNCHANGED <<tensors, calllog, private, spiral>>

\* one load_from_directory call on the registry
LoadDirectoryOnce(d) == last.op = "none" /\ LoadFromDirectory(d) /\ UNCHANGED ops

NextDirectory ==
    last.op = "none" /\ \E d \in Directories(MaxEntries) : LoadDirectoryOnce(d)

\* load_from_directory on the registry as constructed or after unregister
\* of its leading built-ins
SpecDirectory == InitFind /\ [][NextDirectory]_vars

\* get_registry().load_from_file(f), counted as a registry operation
LoadFile(f) == ops < MaxOps /\ LoadFromFile(f) /\ ops' = ops + 1

\* get_registry().load_from_directory(d), counted as a registry operation
LoadDirectory(d) == ops < MaxOps /\ LoadFromDirectory(d) /\ ops' = ops + 1

NextRegistry ==
    \/ \E obj \in CustomPlugins \cup NonPlugins : Register(obj)
    \/ \E name \in Names : Unregister(name)
    \/ \E f \in DirFiles : LoadFile(f)
    \/ \E d \in Directories(1) : LoadDirectory(d)

\* the global registry under every operation that writes to it
SpecRegistry == Init /\ [][NextRegistry]_vars

\* the spiral record after a step of _generate_spiral changed fields of it
SpiralFrame == UNCHANGED <<plugins, ops, last, tensors, calllog, custom_plugin,
                           private>>

\* self._generate_spiral(size): "coords = []; x, y = size // 2, size // 2;
\* coords.append((x, y)); dir_idx = 0; steps = 1"
SpiralCall(size) ==
    /\ spiral.pc = "idle"
    /\ spiral' = [pc |-> "while", size |-> size,
                  coords |-> <<(<<size \div 2, size \div 2>>)>>,
                  x |-> size \div 2, y |-> size \div 2,
                  dir_idx |-> 0, steps |-> 1, leg |-> 0, k |-> 0]
    /\ SpiralFrame

\* "while len(coords) < size * size:" and the "return coords" after it
SpiralWhile ==
    /\ spiral.pc = "while"
    /\ spiral' = IF Len(spiral.coords) < spiral.size * spiral.size
                 THEN [spiral EXCEPT !.pc = "leg", !.leg = 0]
                 ELSE [spiral EXCEPT !.pc = "done"]
    /\ SpiralFrame

\* "for _ in range(2):" and the "steps += 1" after it; legs longer than
\* 2 * MaxSide are not followed
SpiralLeg ==
    /\ spiral.pc = "leg"
    /\ spiral.steps <= 2 * MaxSide
    /\ spiral' = IF spiral.leg < 2
                 THEN [spiral EXCEPT !.pc = "step", !.k = 0]
                 ELSE [spiral EXCEPT !.pc = "while", !.steps = @ + 1]
    /\ SpiralFrame

\* a loop body whose test leaves out row 0 and column 0: 0 < x and 0 < y
SpiralStep_strict ==
    /\ spiral.pc = "step"
    /\ spiral' =
           IF spiral.k < spiral.steps
           THEN LET x1 == spiral.x + directions[spiral.dir_idx + 1][1]
                    y1 == spiral.y + directions[spiral.dir_idx + 1][2]
                    coords1 == IF /\ 0 < x1 /\ x1 < spiral.size
                                  /\ 0 < y1 /\ y1 < spiral.size
                               THEN Append(spiral.coords, <<x1, y1>>)
                               ELSE spiral.coords
                IN  [spiral EXCEPT !.x = x1, !.y = y1, !.coords = coords1,
                                   !.k = @ + 1,
                                   !.pc = IF Len(coords1) >= spiral.size * spiral.size
                                          THEN "done" ELSE "step"]
           ELSE [spiral EXCEPT !.dir_idx = (@ + 1) % 4, !.leg = @ + 1,
                               !.pc = "leg"]
    /\ SpiralFrame

\* a loop body that records every coordinate, inside the grid or not
SpiralStep_nobounds ==
    /\ spiral.pc = "step"
    /\ spiral' =
           IF spiral.k < spiral.steps
           THEN LET x1 == spiral.x + directions[spiral.dir_idx + 1][1]
                    y1 == spiral.y + directions[spiral.dir_idx + 1][2]
                    coords1 == Append(spiral.coords, <<x1, y1>>)
                IN  [spiral EXCEPT !.x = x1, !.y = y1, !.coords = coords1,
                                   !.k = @ + 1,
                                   !.pc = IF Len(coords1) >= spiral.size * spiral.size
                                          THEN "done" ELSE "step"]
           ELSE [spiral EXCEPT !.dir_idx = (@ + 1) % 4, !.leg = @ + 1,
                               !.pc = "leg"]
    /\ SpiralFrame

\* "for _ in range(steps):" with its body "x, y = x + dx, y + dy; if 0 <= x
\* < size and 0 <= y < size: coords.append((x, y)); if len(coords) >= size *
\* size: return coords", and the "dir_idx = (dir_idx + 1) % 4" after it
SpiralStep ==
    /\ spiral.pc = "step"
    /\ spiral' =
           IF spiral.k < spiral.steps
           THEN LET x1 == spiral.x + directions[spiral.dir_idx + 1][1]
                    y1 == spiral.y + directions[spiral.dir_idx + 1][2]
                    coords1 == IF /\ 0 <= x1 /\ x1 < spiral.size
                                  /\ 0 <= y1 /\ y1 < spiral.size
                               THEN Append(spiral.coords, <<x1, y1>>)
                               ELSE spiral.coords
                IN  [spiral EXCEPT !.x = x1, !.y = y1, !.coords = coords1,
                                   !.k = @ + 1,
                                   !.pc = IF Len(coords1) >= spiral.size * spiral.size
                                          THEN "done" ELSE "step"]
           ELSE [spiral EXCEPT !.dir_idx = (@ + 1) % 4, !.leg = @ + 1,
                               !.pc = "leg"]
    /\ SpiralFrame

NextSpiral ==
    \/ \E size \in 1..MaxSide : SpiralCall(size)
    \/ SpiralWhile
    \/ SpiralLeg
    \/ SpiralStep

\* one _generate_spiral call, statement by statement
SpecSpiral == Init /\ [][NextSpiral]_vars

\* the same call in a thread that keeps running: a statement that can be
\* executed is executed
SpecSpiralFair ==
    Init /\ [][NextSpiral]_vars /\ WF_vars(SpiralWhile \/ SpiralLeg \/ SpiralStep)

\* a lookup that takes the plugin out of the dict: self._plugins.pop(name,
\* None)
Get_pop(name) ==
    /\ plugins' = unregister(plugins, name)
    /\ last' = Op("get", get(plugins, name), name, "none", <<>>, plugins)
    /\ UNCHANGED <<ops, tensors, calllog, custom_plugin, private, spiral>>

\* get_registry().get(name)
Get(name) ==
    /\ last' = Op("get", get(plugins, name), name, "none", <<>>, plugins)
    /\ UNCHANGED <<plugins, ops, tensors, calllog, custom_plugin, private, spiral>>

\* get_registry().list_plugins()
ListPlugins ==
    /\ last' = Op("list_plugins", NonePlugin, NoName, "none",
                  list_plugins(plugins), plugins)
    /\ UNCHANGED <<plugins, ops, tensors, calllog, custom_plugin, private, spiral>>

\* get_registry().get_plugin_info(name)
GetPluginInfo(name) ==
    /\ last' = Op("get_plugin_info", get(plugins, name), name, "none",
                  get_plugin_info(plugins, name), plugins)
    /\ UNCHANGED <<plugins, ops, tensors, calllog, custom_plugin, private, spiral>>

NextRead ==
    \/ \E obj \in CompatibleCustoms : Register(obj)
    \/ \E name \in Names : Unregister(name)
    \/ \E name \in Names : Get(name)
    \/ ListPlugins
    \/ \E name \in Names : GetPluginInfo(name)
    \/ \E t \in TensorSamples : FindCompatiblePlugin(t)
    \/ \E t \in TensorSamples, n \in {NoName, "spiral", "doesnotexist"} :
           ToNeutralGrid(t, n)

\* the reading operations between register and unregister
SpecRead == Init /\ [][NextRead]_vars

(* ------------------------------ properties ----------------------------- *)

\* dict(tensors) without the entry at position i
RemoveEntry(t, i) == SubSeq(t, 1, i - 1) \o SubSeq(t, i + 1, Len(t))

IsBuiltinCall == last.op = "__call__" /\ last.obj \in BuiltinPlugins

SquareClasses ==
    {"FlattenTransformer", "LayerWeightedTransformer", "SpiralTransformer",
     "NormalizedTransformer"}

\* the tensors that are present
PresentCount(t) == Cardinality({i \in 1..Len(t) : t[i] # None})

AllZero(grid) == \A r \in 1..Len(grid) : \A c \in 1..Len(grid[r]) : grid[r][c] = Zero

\* C1: right after register(p) get(p.name) is p itself, and right after
\* unregister(x) get(x) is None
C1_RegistryRoundTrip ==
    /\ (last.op = "register" /\ last.exc = "none") =>
           /\ get(plugins, last.obj.name) = last.obj
           /\ get(plugins, last.obj.name).name = last.name
    /\ last.op = "unregister" => get(plugins, last.name) = NonePlugin

\* a custom plugin was registered over a slot and then unregistered
C1_Witness ==
    /\ last.op = "unregister"
    /\ get(last.before, last.name) \in CustomPlugins
    /\ get(last.before, last.name).name = "flatten"

\* C2: for a name that is not registered to_neutral_grid returns what it
\* returns for the name "flatten", whatever the "flatten" slot holds
C2_UnknownPluginFallback ==
    (/\ last.op = "to_neutral_grid"
     /\ last.name # NoName
     /\ get(plugins, last.name) = NonePlugin) =>
        last.ret = to_neutral_grid(plugins, tensors, "flatten").ret

\* an unknown name is resolved while a custom plugin holds the "flatten" slot
C2_Witness ==
    /\ last.op = "to_neutral_grid"
    /\ last.name = "doesnotexist"
    /\ get(plugins, "flatten") \in CustomPlugins
    /\ last.ret # fallback_grid(tensors)

\* C3: for a name n that is registered to_neutral_grid(t, n) returns the
\* pipeline result of the plugin registered under n, whatever its can_handle
C3_NamedLookup ==
    (/\ last.op = "to_neutral_grid"
     /\ last.name # NoName
     /\ get(plugins, last.name) # NonePlugin) =>
        last.ret = call(get(plugins, last.name), tensors).ret

\* C4: a plugin call runs preprocess, transform, postprocess once each in
\* that order, each on the output of the one before, and returns the output
\* of postprocess
C4_Pipeline ==
    (last.op = "__call__" \/ (last.op = "to_neutral_grid" /\ last.obj # NonePlugin)) =>
        /\ [i \in 1..Len(calllog) |-> calllog[i].stage]
               = <<"preprocess", "transform", "postprocess">>
        /\ calllog[1].input = tensors
        /\ calllog[1].output = preprocess(last.obj, tensors)
        /\ calllog[2].input = calllog[1].output
        /\ calllog[2].output = transform(last.obj, calllog[1].output)
        /\ calllog[3].input = calllog[2].output
        /\ calllog[3].output = postprocess(last.obj, calllog[2].output)
        /\ last.ret = calllog[3].output

\* a custom plugin whose hooks both change their argument was called
C4_Witness ==
    /\ last.op = "__call__"
    /\ last.obj.hooks = "custom"
    /\ Len(calllog) = 3
    /\ calllog[1].output # tensors
    /\ calllog[3].output # calllog[3].input

\* C5: register of an object that is not a TransformerPlugin raises
\* TypeError and leaves the mapping as it was
C5_RegisterTypeError ==
    (last.op = "register" /\ ~IsTransformerPlugin(last.obj)) =>
        /\ last.exc = "TypeError"
        /\ plugins = last.before

\* a duck-typed object named like a slot in use was handed to register
C5_Witness ==
    /\ last.op = "register"
    /\ last.obj \in NonPlugins
    /\ get(last.before, last.obj.name) # NonePlugin
    /\ last.exc = "TypeError"

\* C6: right after construction the registry holds exactly the five
\* built-in slots, each with the plugin of that name
C6_ConstructedRegistry ==
    ops = 0 =>
        /\ Len(plugins) = 5
        /\ {plugins[i].name : i \in 1..Len(plugins)}
               = {"flatten", "layer_weighted", "spiral", "normalized",
                  "layer_separated"}
        /\ \A i \in 1..Len(plugins) :
               /\ plugins[i] \in BuiltinPlugins
               /\ plugins[i].name = builtin_name(plugins[i].cls)

\* the constructed registry was read before any change to it
C6_Witness ==
    /\ ops = 0
    /\ last.op = "to_neutral_grid"
    /\ last.name = "layer_separated"
    /\ last.obj = Builtin(5)

\* C7: an entry that is None gives the grid that the collection without that
\* entry gives, for the five built-ins and for to_neutral_grid
C7_AbsenceHandling ==
    \A i \in 1..Len(tensors) :
        tensors[i] = None =>
            /\ IsBuiltinCall =>
                   last.ret = call(last.obj, RemoveEntry(tensors, i)).ret
            /\ last.op = "to_neutral_grid" =>
                   last.ret = to_neutral_grid(plugins, RemoveEntry(tensors, i),
                                              last.name).ret

\* LayerSeparated ran on a collection with an absent and a non-empty entry
C7_Witness ==
    /\ IsBuiltinCall
    /\ last.obj.cls = "LayerSeparatedTransformer"
    /\ Len(tensors) = 4
    /\ tensors[2] = None
    /\ total_elements_of(tensors) = 5

\* C8: the empty collection and a collection of absent values only give the
\* 1x1 grid [[0.0]], for the five built-ins and for to_neutral_grid on the
\* registry as constructed
C8_EmptyInput ==
    (/\ PresentCount(tensors) = 0
     /\ (IsBuiltinCall \/ (last.op = "to_neutral_grid" /\ plugins = PluginRegistry_init))) =>
        last.ret = <<(<<Zero>>)>>

\* LayerWeighted ran on a collection of absent values only
C8_Witness ==
    /\ IsBuiltinCall
    /\ last.obj.cls = "LayerWeightedTransformer"
    /\ Len(tensors) = 2
    /\ PresentCount(tensors) = 0

\* C9 as stated: present tensors with no scalar element at all give the 1x1
\* zero grid, for every built-in
C9_ZeroElementsOriginal ==
    (/\ IsBuiltinCall
     /\ PresentCount(tensors) >= 1
     /\ total_elements_of(tensors) = 0) =>
        last.ret = zeros(1, 1)

\* C9 amended: the four square strategies give the 1x1 zero grid;
\* LayerSeparated gives an all-zero grid of one 2x2 tile per present tensor
C9_ZeroElements ==
    (/\ IsBuiltinCall
     /\ PresentCount(tensors) >= 1
     /\ total_elements_of(tensors) = 0) =>
        IF last.obj.cls \in SquareClasses
        THEN last.ret = zeros(1, 1)
        ELSE LET n == PresentCount(tensors)
                 cols == CHOOSE c \in 1..n : c * c >= n /\ (c - 1) * (c - 1) < n
                 rows == CHOOSE r \in 1..n : r * cols >= n /\ (r - 1) * cols < n
             IN  /\ Len(last.ret) = 2 * rows
                 /\ \A r \in 1..Len(last.ret) : Len(last.ret[r]) = 2 * cols
                 /\ AllZero(last.ret)

\* LayerSeparated ran on zero-length tensors only
C9_Witness ==
    /\ IsBuiltinCall
    /\ last.obj.cls = "LayerSeparatedTransformer"
    /\ PresentCount(tensors) = Len(tensors)
    /\ Len(tensors) >= 1
    /\ total_elements_of(tensors) = 0

\* C10: for the four square strategies and n >= 1 scalars the grid is S x S
\* with S the least integer whose square is at least n
C10_SquareShape ==
    (/\ IsBuiltinCall
     /\ last.obj.cls \in SquareClasses
     /\ total_elements_of(tensors) >= 1) =>
        LET n == total_elements_of(tensors)
            S == Len(last.ret)
        IN  /\ S * S >= n
            /\ (S - 1) * (S - 1) < n
            /\ \A r \in 1..S : Len(last.ret[r]) = S

\* Spiral ran on five scalars, which is not a square number
C10_Witness ==
    /\ IsBuiltinCall
    /\ last.obj.cls = "SpiralTransformer"
    /\ total_elements_of(tensors) = 5
    /\ Len(last.ret) = 3

IsCallOf(cls) == IsBuiltinCall /\ last.obj.cls = cls

\* the scalars of entry j in row-major order: row r, column c of an array
\* with w columns is element (r - 1) * w + c
RowMajor(arr) ==
    IF arr.rows = <<>> THEN <<>>
    ELSE LET w == Len(arr.rows[1])
         IN  [k \in 1..(Len(arr.rows) * w) |->
                 arr.rows[((k - 1) \div w) + 1][((k - 1) % w) + 1]]

\* number of scalars in the present entries before entry j
ScalarsBefore(t, j) ==
    LET RECURSIVE Sum(_)
        Sum(i) == IF i = 0 THEN 0
                  ELSE (IF t[i] = None THEN 0 ELSE Len(RowMajor(t[i]))) + Sum(i - 1)
    IN  Sum(j - 1)

\* number of scalars in the whole collection
ScalarCount(t) == ScalarsBefore(t, Len(t) + 1)

\* the k-th scalar (0-based) of the collection in linear order: tensors in
\* insertion order, each row-major, absent entries skipped
ScalarAt(t, k) ==
    LET j == CHOOSE i \in 1..Len(t) :
                 /\ t[i] # None
                 /\ ScalarsBefore(t, i) <= k
                 /\ k < ScalarsBefore(t, i) + Len(RowMajor(t[i]))
    IN  RowMajor(t[j])[k - ScalarsBefore(t, j) + 1]

\* the scenario {"a.weight": [[1,2],[3,4]], "a.bias": [5,6]}
SixScalars ==
    <<Array(<<IntRow(<<1, 2>>), IntRow(<<3, 4>>)>>), Array(<<IntRow(<<5, 6>>)>>)>>

\* C11: Flatten puts the k-th scalar in cell (k div S, k mod S) and 0.0 in
\* every cell from index n on, so that every scalar appears exactly once;
\* six scalars 1..6 fill a 3x3 grid as 1,2,3,4,5,6,0,0,0
C11_FlattenPlacement ==
    IsCallOf("FlattenTransformer") =>
        LET n == ScalarCount(tensors)
            S == Len(last.ret)
        IN  /\ \A r \in 1..S : \A c \in 1..S :
                   LET k == (r - 1) * S + (c - 1)
                   IN  last.ret[r][c] = IF k < n THEN ScalarAt(tensors, k) ELSE Zero
            /\ n <= S * S
            /\ tensors = SixScalars =>
                   last.ret = <<IntRow(<<1, 2, 3>>), IntRow(<<4, 5, 6>>),
                                IntRow(<<0, 0, 0>>)>>

\* Flatten ran on the six scalars of the scenario
C11_Witness ==
    /\ IsCallOf("FlattenTransformer")
    /\ tensors = SixScalars
    /\ Len(last.ret) = 3

\* C12: LayerWeighted returns the grid Flatten returns, in shape and in every
\* cell, for every collection (empty, all absent, zero-length tensors too)
C12_LayerWeightedIsFlatten ==
    IsCallOf("LayerWeightedTransformer") =>
        last.ret = FlattenTransformer_transform(tensors)

\* LayerWeighted ran on several tensors, one absent and one zero-length
C12_Witness ==
    /\ IsCallOf("LayerWeightedTransformer")
    /\ Len(tensors) = 4
    /\ PresentCount(tensors) = 3
    /\ ScalarCount(tensors) = 5
    /\ last.ret[2][2] = Rat(5, 1)

\* number of unit steps in the first j legs of lengths 1,1,2,2,3,3,...
LegEnd(j) == (j \div 2) * ((j \div 2) + 1) + (j % 2) * ((j \div 2) + 1)

\* the leg (0-based) unit step m (1-based) belongs to, among legs 0..top
LegOf(m, top) == CHOOSE j \in 0..top : LegEnd(j) < m /\ m <= LegEnd(j + 1)

\* the <<row, column>> change of one step of leg j: right, down, left, up in
\* turn (right is column + 1, down is row + 1)
LegStep(j) ==
    CASE j % 4 = 0 -> <<0, 1>>
      [] j % 4 = 1 -> <<1, 0>>
      [] j % 4 = 2 -> <<0, -1>>
      [] j % 4 = 3 -> <<-1, 0>>

\* <<row, column>> where leg j begins: leg i has (i div 2) + 1 steps
RECURSIVE LegStart(_, _)
LegStart(start, j) ==
    IF j = 0 THEN start
    ELSE LET p == LegStart(start, j - 1)
             len == ((j - 1) \div 2) + 1
         IN  <<p[1] + len * LegStep(j - 1)[1], p[2] + len * LegStep(j - 1)[2]>>

\* <<row, column>> after m unit steps from start
WalkPos(start, m, top) ==
    IF m = 0 THEN start
    ELSE LET j == LegOf(m, top)
             p == LegStart(start, j)
             k == m - LegEnd(j)
         IN  <<p[1] + k * LegStep(j)[1], p[2] + k * LegStep(j)[2]>>

\* the walk from (S div 2, S div 2) over legs 0..2S+3, which pass every
\* cell of [0,S) x [0,S), keeping the coordinates inside the square
SpiralPath(S) ==
    LET InBounds(p) == 0 <= p[1] /\ p[1] < S /\ 0 <= p[2] /\ p[2] < S
        top == 2 * S + 3
        walk == [m \in 1..(LegEnd(top + 1) + 1) |->
                    WalkPos(<<S \div 2, S \div 2>>, m - 1, top)]
    IN  SelectSeq(walk, InBounds)

\* the scenario with the four scalars 1, 2, 3, 4
FourScalars == <<Array(<<IntRow(<<1, 2, 3, 4>>)>>)>>

\* C13: Spiral writes the i-th scalar to the i-th in-bounds coordinate of the
\* walk from (S div 2, S div 2) that goes right, down, left, up with leg
\* lengths 1,1,2,2,3,3,...; distinct scalars get distinct cells, every other
\* cell is 0.0, and four scalars fill the whole 2x2 grid
C13_SpiralPlacement ==
    IsCallOf("SpiralTransformer") =>
        LET n == ScalarCount(tensors)
            S == Len(last.ret)
        IN  \E path \in {SpiralPath(S)} :
                /\ Len(path) >= n
                /\ \A i \in 1..n :
                       last.ret[path[i][1] + 1][path[i][2] + 1] = ScalarAt(tensors, i - 1)
                /\ \A i, j \in 1..n : i # j => path[i] # path[j]
                /\ \A r \in 1..S : \A c \in 1..S :
                       (\A i \in 1..n : path[i] # <<r - 1, c - 1>>) =>
                           last.ret[r][c] = Zero
                /\ tensors = FourScalars =>
                       last.ret = <<IntRow(<<3, 4>>), IntRow(<<2, 1>>)>>

\* Spiral ran on ten scalars: a 4x4 grid whose start cell is off-centre
C13_Witness ==
    /\ IsCallOf("SpiralTransformer")
    /\ ScalarCount(tensors) = 10
    /\ Len(last.ret) = 4
    /\ last.ret[3][3] = Rat(1, 1)
    /\ last.ret[2][2] = Rat(7, 1)

\* the scalars of the collection, as a set
ScalarSet(t) == {ScalarAt(t, k) : k \in 0..(ScalarCount(t) - 1)}

\* least and greatest scalar of a collection that has one
Least(t) == CHOOSE v \in ScalarSet(t) : \A w \in ScalarSet(t) : ~RatLess(w, v)

Greatest(t) == CHOOSE v \in ScalarSet(t) : \A w \in ScalarSet(t) : ~RatLess(v, w)

\* the least s with s * s >= n
SideFor(n) == CHOOSE s \in 0..n : s * s >= n /\ \A u \in 0..(s - 1) : u * u < n

\* the scenario with the three scalars 0, 0, 10
ZeroZeroTen == <<Array(<<IntRow(<<0, 0, 10>>)>>)>>

C15_NormalizedInUnitRange ==
    IsCallOf("NormalizedTransformer") =>
        \A r \in 1..Len(last.ret) : \A c \in 1..Len(last.ret[r]) :
            ~RatLess(last.ret[r][c], Zero) /\ ~RatLess(One, last.ret[r][c])

\* the entries of the collection that are not absent, in order
PresentTensors(t) == LET IsPresent(a) == a # None IN SelectSeq(t, IsPresent)

\* C16: for n >= 1 present tensors LayerSeparated returns a grid of shape
\* (rows * M, cols * M), cols = ceil(sqrt(n)), rows = ceil(n / cols),
\* M = max_j (s_j + 2), s_j = ceil(sqrt(count_j)); scalar i of present
\* tensor j is at ((j div cols) * M + 1 + i div s_j,
\* (j mod cols) * M + 1 + i mod s_j); all other cells are 0.0, the ring
\* around each tensor's s_j x s_j block is 0.0, and no two scalars share a
\* cell
C16_LayerSeparatedPlacement ==
    (IsCallOf("LayerSeparatedTransformer") /\ PresentCount(tensors) >= 1) =>
        LET P == PresentTensors(tensors)
            n == Len(P)
            cols == SideFor(n)
            rows == CHOOSE r \in 1..n : r * cols >= n /\ (r - 1) * cols < n
            count(j) == Len(RowMajor(P[j + 1]))
            s(j) == SideFor(count(j))
            M == Max({s(j) + 2 : j \in 0..(n - 1)})
            Top(j) == (j \div cols) * M
            Left(j) == (j % cols) * M
            Coord(j, i) == <<Top(j) + 1 + (i \div s(j)), Left(j) + 1 + (i % s(j))>>
            Pairs == {p \in (0..(n - 1)) \X (0..ScalarCount(tensors)) : p[2] < count(p[1])}
        IN  /\ Len(last.ret) = rows * M
            /\ \A r \in 1..(rows * M) : Len(last.ret[r]) = cols * M
            /\ \A p \in Pairs :
                   last.ret[Coord(p[1], p[2])[1] + 1][Coord(p[1], p[2])[2] + 1]
                       = RowMajor(P[p[1] + 1])[p[2] + 1]
            /\ \A p, q \in Pairs :
                   p # q => Coord(p[1], p[2]) # Coord(q[1], q[2])
            /\ \A r \in 0..(rows * M - 1) : \A c \in 0..(cols * M - 1) :
                   (\A p \in Pairs : Coord(p[1], p[2]) # <<r, c>>) =>
                       last.ret[r + 1][c + 1] = Zero
            /\ \A j \in 0..(n - 1) : \A d \in 0..(s(j) + 1) :
                   /\ last.ret[Top(j) + 1][Left(j) + d + 1] = Zero
                   /\ last.ret[Top(j) + s(j) + 2][Left(j) + d + 1] = Zero
                   /\ last.ret[Top(j) + d + 1][Left(j) + 1] = Zero
                   /\ last.ret[Top(j) + d + 1][Left(j) + s(j) + 2] = Zero

\* LayerSeparated ran on three present tensors of 3, 0 and 2 scalars and one
\* absent entry: an 8x8 grid with the third tensor in the second tile row
C16_Witness ==
    /\ IsCallOf("LayerSeparatedTransformer")
    /\ Len(tensors) = 4
    /\ PresentCount(tensors) = 3
    /\ ScalarCount(tensors) = 5
    /\ Len(last.ret) = 8
    /\ last.ret[6][2] = Rat(4, 1)

\* C18: find_compatible_plugin(t) returns the plugin in the lowest slot whose
\* can_handle(t) is true, and None when there is no such slot (the empty
\* registry included); the plugin it returns is registered and compatible
C18_FindFirstCompatible ==
    last.op = "find_compatible_plugin" =>
        LET hits == {i \in 1..Len(plugins) : can_handle(plugins[i], tensors)}
        IN  /\ hits = {} => last.obj = NonePlugin
            /\ hits # {} =>
                   /\ \E i \in hits :
                          /\ last.obj = plugins[i]
                          /\ \A j \in hits : i <= j
                   /\ can_handle(last.obj, tensors)
            /\ plugins = last.before

\* the search passed over an incompatible plugin in the first slot and
\* returned the plugin of the second slot
C18_Witness ==
    /\ last.op = "find_compatible_plugin"
    /\ Len(plugins) >= 2
    /\ ~can_handle(plugins[1], tensors)
    /\ last.obj = plugins[2]

\* C19: load_from_file of a path that does not exist raises
\* FileNotFoundError and leaves the registry as it was; when executing the
\* source raises, that exception reaches the caller and the registry is as
\* it was, whatever classes the source defines
C19_LoadFailures ==
    last.op = "load_from_file" =>
        /\ last.obj.kind = "missing" =>
               last.exc = "FileNotFoundError" /\ plugins = last.before
        /\ last.obj.kind = "execraises" =>
               last.exc = last.obj.error /\ plugins = last.before

\* a source that defines a constructible plugin class and then raises was
\* loaded into a registry that holds plugins
C19_Witness ==
    /\ last.op = "load_from_file"
    /\ last.obj.kind = "execraises"
    /\ last.obj.error = "RuntimeError"
    /\ Len(last.obj.candidates) >= 1
    /\ last.obj.candidates[1].outcome = "ok"
    /\ last.before # <<>>
    /\ last.exc = "RuntimeError"

\* C20: when the source executes, load_from_file returns normally; every
\* candidate whose construction and registration succeed is registered
\* under its name (and stays unless a later successful candidate has the
\* same name), candidates that raise add nothing and stop nothing, the
\* slots of other names are as before, and with no successful candidate the
\* registry is unchanged
C20_LoadCandidates ==
    (last.op = "load_from_file" /\ last.obj.kind = "ok") =>
        LET cs == last.obj.candidates
            ok == {i \in 1..Len(cs) : cs[i].outcome = "ok"}
            okNames == {cs[i].obj.name : i \in ok}
        IN  /\ last.exc = "none"
            /\ \A i \in ok :
                   \/ get(plugins, cs[i].obj.name) = cs[i].obj
                   \/ \E j \in ok : j > i /\ cs[j].obj.name = cs[i].obj.name
            /\ \A i \in 1..Len(plugins) :
                   \/ plugins[i] \in {cs[j].obj : j \in ok}
                   \/ \E k \in 1..Len(last.before) : plugins[i] = last.before[k]
            /\ \A nm \in Names \ okNames :
                   get(plugins, nm) = get(last.before, nm)
            /\ {plugins[i].name : i \in 1..Len(plugins)} =
                   {last.before[k].name : k \in 1..Len(last.before)} \cup okNames
            /\ ok = {} => plugins = last.before

\* the first candidate raised and the second was registered all the same
C20_Witness ==
    /\ last.op = "load_from_file"
    /\ last.obj.kind = "ok"
    /\ Len(last.obj.candidates) = 2
    /\ last.obj.candidates[1].outcome = "ctor_raises"
    /\ last.obj.candidates[2].outcome = "ok"
    /\ get(plugins, last.obj.candidates[2].obj.name) = last.obj.candidates[2].obj
    /\ last.exc = "none"

\* C21: to_neutral_grid consults the one global registry only: a name that
\* is registered there resolves to its plugin and gives that plugin's
\* pipeline result in every call; a name registered in a private registry
\* only is resolved as an unknown name; constructing a private registry and
\* registering in it leave the global registry as it was
C21_SingleGlobalRegistry ==
    /\ (/\ last.op = "to_neutral_grid"
        /\ last.name # NoName
        /\ get(plugins, last.name) # NonePlugin) =>
           /\ last.obj = get(plugins, last.name)
           /\ last.ret = call(get(plugins, last.name), tensors).ret
    /\ (/\ last.op = "to_neutral_grid"
        /\ last.name # NoName
        /\ get(plugins, last.name) = NonePlugin) =>
           /\ last.obj = get(plugins, "flatten")
           /\ last.ret = to_neutral_grid(plugins, tensors, "flatten").ret
    /\ last.op \in {"PluginRegistry", "private.register"} =>
           plugins = last.before

\* C22: whenever to_neutral_grid takes its inline fallback (no plugin was
\* resolved, or the registry could not be imported) the grid it returns is
\* the grid FlattenTransformer.transform returns for the same collection
C22_FallbackIsFlatten ==
    (\/ last.op = "to_neutral_grid" /\ last.obj = NonePlugin
     \/ last.op = "to_neutral_grid_import_error") =>
        last.ret = FlattenTransformer_transform(tensors)

\* the fallback ran on six scalars after "flatten" was unregistered
C22_Witness ==
    /\ last.op = "to_neutral_grid"
    /\ last.obj = NonePlugin
    /\ get(plugins, "flatten") = NonePlugin
    /\ tensors = SixScalars
    /\ last.ret[2][3] = Rat(6, 1)

\* the names that are keys of the registry before or after the last
\* operation, and the names the operations are called with
SlotNames ==
    Names \cup {plugins[i].name : i \in 1..Len(plugins)}
          \cup {last.before[i].name : i \in 1..Len(last.before)}

\* C23: register(p) makes slot p.name hold p and leaves every other slot and
\* the order of the slots as they were (a new name is added at the end);
\* unregister(n) takes slot n away and leaves every other slot and their
\* order as they were; unregister of a name that is not registered raises
\* nothing and leaves the registry as it was
C23_RegisterUnregisterFrame ==
    /\ (last.op = "register" /\ last.exc = "none") =>
           /\ \A n \in SlotNames \ {last.obj.name} :
                  get(plugins, n) = get(last.before, n)
           /\ list_plugins(plugins) =
                  IF get(last.before, last.obj.name) # NonePlugin
                  THEN list_plugins(last.before)
                  ELSE Append(list_plugins(last.before), last.obj.name)
    /\ last.op = "unregister" =>
           /\ last.exc = "none"
           /\ \A n \in SlotNames \ {last.name} :
                  get(plugins, n) = get(last.before, n)
           /\ LET Other(n) == n # last.name
              IN  list_plugins(plugins) = SelectSeq(list_plugins(last.before), Other)
           /\ get(last.before, last.name) = NonePlugin => plugins = last.before

\* a slot in the middle of the registry was unregistered
C23_Witness ==
    /\ last.op = "unregister"
    /\ Len(last.before) = 5
    /\ last.before[3].name = last.name
    /\ plugins = <<last.before[1], last.before[2], last.before[4], last.before[5]>>

\* the registry after load_from_file was tried, failures ignored, on the
\* entries of d with the indices idxs in turn
RECURSIVE AfterLoads(_, _, _)
AfterLoads(reg, d, idxs) ==
    IF idxs = <<>> THEN reg
    ELSE AfterLoads(load_from_file(reg, d.entries[Head(idxs)].file).plugins,
                    d, Tail(idxs))

\* C24: load_from_directory of a path that is not a directory raises
\* NotADirectoryError and leaves the registry as it was; of a directory, it
\* raises nothing, calls load_from_file for exactly the entries named *.py
\* that do not start with "_", in listing order, and the registry is what
\* those loads leave behind one after the other, failed ones included
C24_LoadFromDirectory ==
    last.op = "load_from_directory" =>
        LET d == last.obj
            IsPlugin(i) == d.entries[i].ext = "py" /\ ~d.entries[i].underscore
            eligible == SelectSeq([i \in 1..Len(d.entries) |-> i], IsPlugin)
        IN  /\ ~d.isdir =>
                   last.exc = "NotADirectoryError" /\ plugins = last.before
            /\ d.isdir =>
                   /\ last.exc = "none"
                   /\ last.ret = eligible
                   /\ plugins = AfterLoads(last.before, d, eligible)

\* the first plugin file of the directory failed to load and the second
\* one registered its plugin
C24_Witness ==
    /\ last.op = "load_from_directory"
    /\ last.obj.isdir
    /\ last.ret = <<1, 2>>
    /\ last.obj.entries[1].file.kind = "execraises"
    /\ last.obj.entries[2].file.kind = "ok"
    /\ get(last.before, "reversed") = NonePlugin
    /\ get(plugins, "reversed") = Custom(1, TRUE, "default")
    /\ last.exc = "none"

Cells(S) == (0..(S - 1)) \X (0..(S - 1))

\* C26: while _generate_spiral(S) runs, the coordinates recorded so far are
\* inside [0,S) x [0,S), pairwise distinct and begin with (S div 2, S div 2);
\* what it returns lists each of the S * S cells once, so that every first n
\* <= S * S scalars of Spiral get a cell of their own
C26_SpiralPermutation ==
    spiral.pc # "idle" =>
        LET S == spiral.size
            coords == spiral.coords
        IN  /\ coords[1] = <<S \div 2, S \div 2>>
            /\ \A i \in 1..Len(coords) : coords[i] \in Cells(S)
            /\ \A i, j \in 1..Len(coords) : i # j => coords[i] # coords[j]
            /\ spiral.pc = "done" =>
                   /\ Len(coords) = S * S
                   /\ {coords[i] : i \in 1..Len(coords)} = Cells(S)
                   /\ coords = generate_spiral(S)
                   /\ \A n \in 1..(S * S) :
                          Cardinality({coords[i] : i \in 1..n}) = n

\* _generate_spiral(4) returned: the start cell (2, 2) is off-centre
C26_Witness ==
    /\ spiral.pc = "done"
    /\ spiral.size = 4
    /\ Len(spiral.coords) = 16
    /\ spiral.coords[1] = <<2, 2>>
    /\ spiral.coords[10] = <<3, 0>>
    /\ spiral.coords[16] = <<0, 3>>

\* C27: a _generate_spiral call that has started returns
C27_SpiralTerminates == (spiral.pc # "idle") ~> (spiral.pc = "done")

\* _generate_spiral returned for an even and for an odd side after growing
\* the legs several times
C27_Witness ==
    /\ spiral.pc = "done"
    /\ spiral.size \in {4, 5}
    /\ spiral.steps >= 4
    /\ Len(spiral.coords) = spiral.size * spiral.size

\* C28: to_neutral_grid without a plugin name runs the pipeline of the
\* plugin that is in the "flatten" slot at the time of the call, a custom
\* plugin registered under that name included, and runs the inline
\* algorithm exactly when the slot is empty
C28_DefaultIsFlattenSlot ==
    (last.op = "to_neutral_grid" /\ last.name = NoName) =>
        IF get(plugins, "flatten") # NonePlugin
        THEN /\ last.obj = get(plugins, "flatten")
             /\ last.ret = call(get(plugins, "flatten"), tensors).ret
             /\ calllog = call(get(plugins, "flatten"), tensors).log
             /\ calllog # <<>>
        ELSE /\ last.obj = NonePlugin
             /\ last.ret = fallback_grid(tensors)
             /\ calllog = <<>>

\* the default call ran a custom plugin that had replaced the built-in in
\* the "flatten" slot and returned a grid the inline algorithm does not
C28_Witness ==
    /\ last.op = "to_neutral_grid"
    /\ last.name = NoName
    /\ get(plugins, "flatten") \in CustomPlugins
    /\ Len(plugins) = 5
    /\ last.ret # fallback_grid(tensors)

\* C29: while the built-in flatten plugin is in the first slot, where
\* construction put it, find_compatible_plugin returns it for every
\* collection, whatever was registered after it; the plugin of a later slot
\* is returned only when no earlier slot holds a plugin whose can_handle is
\* true
C29_FlattenShadowsLater ==
    last.op = "find_compatible_plugin" =>
        /\ (plugins # <<>> /\ plugins[1] = Builtin(1)) => last.obj = Builtin(1)
        /\ \A i \in 1..Len(plugins) :
               last.obj = plugins[i] =>
                   \A j \in 1..(i - 1) : ~can_handle(plugins[j], tensors)

\* plugins were registered after the built-ins and the search still
\* returned the built-in flatten plugin
C29_Witness ==
    /\ last.op = "find_compatible_plugin"
    /\ Len(plugins) = 7
    /\ plugins[1] = Builtin(1)
    /\ plugins[6] \in CustomPlugins /\ plugins[6].can
    /\ plugins[7] \in CustomPlugins
    /\ last.obj = Builtin(1)
    /\ tensors # <<>>

\* C30: get, list_plugins, get_plugin_info, find_compatible_plugin and
\* to_neutral_grid leave the registry as it was: the same plugins under the
\* same keys in the same order; get returns the plugin of the slot,
\* list_plugins the keys in order, and get_plugin_info(n) the description of
\* the plugin in slot n, None when there is no slot n
C30_ReadsLeaveRegistry ==
    /\ last.op \in {"get", "list_plugins", "get_plugin_info",
                    "find_compatible_plugin", "to_neutral_grid"} =>
           plugins = last.before
    /\ last.op = "get" =>
           /\ last.obj \in {plugins[i] : i \in 1..Len(plugins)} \cup {NonePlugin}
           /\ last.obj # NonePlugin => last.obj.name = last.name
           /\ last.obj = NonePlugin =>
                  \A i \in 1..Len(plugins) : plugins[i].name # last.name
    /\ last.op = "list_plugins" =>
           last.ret = [i \in 1..Len(plugins) |-> plugins[i].name]
    /\ last.op = "get_plugin_info" =>
           /\ last.ret = IF \E i \in 1..Len(plugins) : plugins[i].name = last.name
                         THEN description(get(plugins, last.name))
                         ELSE NoDescription
           /\ (last.name = "spiral" /\ get(plugins, "spiral") = Builtin(3)) =>
                  last.ret = "Arranges weights in a spiral pattern from center outward"

\* get_plugin_info was asked about a slot that holds a custom plugin, and
\* the registry holds what register had left
C30_Witness ==
    /\ last.op = "get_plugin_info"
    /\ last.name = "flatten"
    /\ get(plugins, "flatten") \in CustomPlugins
    /\ last.ret = "Fills grid in reverse order for a different perspective"
    /\ plugins = last.before
    /\ Len(plugins) = 6

====
